---- MODULE Spec2Model ----
(***************************************************************************)
(* Model of ghc.  The organization registry (internal/domain/config.go):   *)
(* a Config holds an ordered list of Organizations, mutated by             *)
(* SetOrganization and RemoveOrganization and checked by Validate.  The    *)
(* clone routing (internal/clone, internal/sshconfig): the URL parser and  *)
(* the SSH config fragment.                                                *)
(***************************************************************************)
EXTENDS Integers, Sequences, FiniteSets, TLC

----------------------------------------------------------------------------
(* Bounds of the model *)

NumNames == 3

\* longest organization name enumerated over NameAlphabet
MaxNameLen == 3

\* longest registry handed to Config.Validate
MaxValOrgs == 2

\* most tokens after the host part of a repository URL
MaxTail == 5

\* the ghc commands that run at the same time
NumProcs == 2

----------------------------------------------------------------------------
(* Inputs *)

\* Organization names the calls draw from.  Go compares strings byte by
\* byte, so "org1" and "Org1" are different names.
NamePool == <<"org1", "Org1", "org2", "default", "ORG1", "org3">>

Names == {NamePool[i] : i \in 1..NumNames}

\* Key paths the calls draw from.  The registry operations store a key path
\* and never inspect it, so two values are enough to tell an overwritten
\* path from a kept one.
Paths == {"/path/to/key1", "/home/u/key2"}

\* type Organization struct { Name, SSHKeyPath string; IsDefault bool }
Organization == [Name : Names, SSHKeyPath : Paths, IsDefault : BOOLEAN]

----------------------------------------------------------------------------
(* Errors of package domain *)

ErrCantRemoveDefault == "cannot remove the default organization"

ErrOrganizationNotFound == "organization not found"

\* the nil error
nil == "nil"

----------------------------------------------------------------------------
(* State *)

VARIABLES
    Organizations,  \* Config.Organizations, in slice order
    call,           \* the last call made on the Config, with its arguments
    err,            \* the error the last call returned
    prev,           \* Config.Organizations when the last call was made
    removeCalled,   \* whether RemoveOrganization has been called so far
    files,          \* the key files: what os.Stat finds at each key path
    out,            \* what the last call returned or named besides its error
    disk,           \* the home directory and the registry file in it
    input,          \* the arguments a function is about to be applied to
    sshConfigDir,   \* the directory of SSH config files and the files in it
    procs           \* the ghc commands running at the same time

vars == <<Organizations, call, err, prev, removeCalled, files, out, disk, input,
          sshConfigDir, procs>>

NoCall == [op |-> "none", name |-> "", sshKeyPath |-> "", isDefault |-> FALSE]

NoInput == <<>>

\* the directory of SSH config files before anything made it
NoConfigDir == [exists |-> FALSE, files |-> <<>>]

\* no commands running at the same time
NoProcs == <<>>

----------------------------------------------------------------------------
(* RemoveOrganization *)

\* for idx, org := range orgs { if org.Name == name { ...; break } }
\* the first index whose entry has the name, 0 when there is none
\* (the code's idxToRemove == -1, slices being 0-based there).
IndexOfName(orgs, name) ==
    IF \E i \in 1..Len(orgs) : orgs[i].Name = name
    THEN CHOOSE i \in 1..Len(orgs) :
            /\ orgs[i].Name = name
            /\ \A j \in 1..(i - 1) : orgs[j].Name # name
    ELSE 0

\* a remove-by-swap: the last entry takes the place of the removed one
DeleteAtSwap(orgs, idx) ==
    IF idx = Len(orgs)
    THEN SubSeq(orgs, 1, Len(orgs) - 1)
    ELSE SubSeq([orgs EXCEPT ![idx] = orgs[Len(orgs)]], 1, Len(orgs) - 1)

\* append(c.Organizations[:idxToRemove], c.Organizations[idxToRemove+1:]...)
DeleteAt(orgs, idx) ==
    SubSeq(orgs, 1, idx - 1) \o SubSeq(orgs, idx + 1, Len(orgs))

\* the default check without the len(c.Organizations) > 1 condition
RemoveErrAlwaysProtect(orgs, name) ==
    LET idx == IndexOfName(orgs, name)
    IN  IF idx = 0 THEN ErrOrganizationNotFound
        ELSE IF orgs[idx].IsDefault THEN ErrCantRemoveDefault
        ELSE nil

\* the error RemoveOrganization returns
RemoveErr(orgs, name) ==
    LET idx == IndexOfName(orgs, name)
    IN  IF idx = 0 THEN ErrOrganizationNotFound
        ELSE IF orgs[idx].IsDefault /\ Len(orgs) > 1 THEN ErrCantRemoveDefault
        ELSE nil

\* the default check made after the deletion instead of before it
RemoveOrganizationLate(orgs, name) ==
    IF IndexOfName(orgs, name) = 0 THEN orgs
    ELSE DeleteAt(orgs, IndexOfName(orgs, name))

\* c.Organizations after RemoveOrganization(name)
RemoveOrganization(orgs, name) ==
    IF RemoveErr(orgs, name) # nil THEN orgs
    ELSE DeleteAt(orgs, IndexOfName(orgs, name))

----------------------------------------------------------------------------
(* SetOrganization *)

\* the loop that forgets to clear
ClearDefaultsNoop(orgs, isDefault) == orgs

\* if isDefault { for _, org := range c.Organizations { org.IsDefault = false } }
ClearDefaults(orgs, isDefault) ==
    IF isDefault
    THEN [i \in 1..Len(orgs) |-> [orgs[i] EXCEPT !.IsDefault = FALSE]]
    ELSE orgs

\* an upsert that never finds the existing entry
UpsertAlwaysAppend(orgs, name, sshKeyPath, isDefault) ==
    Append(orgs, [Name |-> name, SSHKeyPath |-> sshKeyPath, IsDefault |-> isDefault])

\* an update made by deleting the entry and appending it again
UpsertMoveToEnd(orgs, name, sshKeyPath, isDefault) ==
    LET idx == IndexOfName(orgs, name)
        rest == IF idx # 0 THEN DeleteAt(orgs, idx) ELSE orgs
    IN  Append(rest, [Name |-> name, SSHKeyPath |-> sshKeyPath,
                      IsDefault |-> isDefault])

\* update the first entry named name in place, or append a new entry
Upsert(orgs, name, sshKeyPath, isDefault) ==
    LET idx == IndexOfName(orgs, name)
    IN  IF idx # 0
        THEN [orgs EXCEPT ![idx] = [Name |-> orgs[idx].Name,
                                    SSHKeyPath |-> sshKeyPath,
                                    IsDefault |-> isDefault]]
        ELSE Append(orgs, [Name |-> name, SSHKeyPath |-> sshKeyPath,
                           IsDefault |-> isDefault])

\* the final step left out
ForceSoleDefaultNoop(orgs) == orgs

\* the final step with len(c.Organizations) >= 1 for == 1
ForceFirstDefault(orgs) ==
    IF Len(orgs) >= 1
    THEN [orgs EXCEPT ![1] = [orgs[1] EXCEPT !.IsDefault = TRUE]]
    ELSE orgs

\* if len(c.Organizations) == 1 { c.Organizations[0].IsDefault = true }
ForceSoleDefault(orgs) ==
    IF Len(orgs) = 1
    THEN [orgs EXCEPT ![1] = [orgs[1] EXCEPT !.IsDefault = TRUE]]
    ELSE orgs

\* c.Organizations after SetOrganization(name, sshKeyPath, isDefault)
SetOrganization(orgs, name, sshKeyPath, isDefault) ==
    ForceSoleDefault(Upsert(ClearDefaults(orgs, isDefault), name, sshKeyPath, isDefault))

----------------------------------------------------------------------------
(* Key files *)

\* the permission mode Organization.Validate requires, 0600
SecureMode == 384

\* 0600, 0644, 0700
Modes == {384, 420, 448}

\* the paths os.Stat is asked about
KeyPaths == Paths

\* What os.Stat(path) returns: the file's mode, ENOENT (the file does not
\* exist) or another failure, such as EACCES on a parent directory.
FileStates ==
    {[stat |-> "ok", mode |-> m] : m \in Modes}
        \cup {[stat |-> "ENOENT", mode |-> 0], [stat |-> "EACCES", mode |-> 0]}

FileSystems == [KeyPaths -> FileStates]

\* no key file exists
NoFiles == [p \in KeyPaths |-> [stat |-> "ENOENT", mode |-> 0]]

----------------------------------------------------------------------------
(* Organization.Validate *)

ErrEmptyOrganizationName == "organization name cannot be empty"

ErrInvalidOrgName == "invalid organization name"

ErrEmptySSHKeyPath == "SSH key path cannot be empty"

ErrNoOrganizations == "no organizations found in the configuration"

ErrDuplicateOrganization == "duplicate organization name found"

\* os.ErrNotExist and os.ErrPermission
ErrNotExist == "file does not exist"

ErrPermission == "permission denied"

\* Organization.Validate reads a name character by character: there a name
\* is the sequence of its characters.
Str_default == <<"d", "e", "f", "a", "u", "l", "t">>

\* the characters of the names of NamePool
NameChars ==
    [n \in {NamePool[i] : i \in 1..Len(NamePool)} |->
        CASE n = "org1" -> <<"o", "r", "g", "1">>
          [] n = "Org1" -> <<"O", "r", "g", "1">>
          [] n = "org2" -> <<"o", "r", "g", "2">>
          [] n = "default" -> Str_default
          [] n = "ORG1" -> <<"O", "R", "G", "1">>
          [] n = "org3" -> <<"o", "r", "g", "3">>]

\* [a-z0-9]
LowerAlnum ==
    {"a", "b", "c", "d", "e", "f", "g", "h", "i", "j", "k", "l", "m",
     "n", "o", "p", "q", "r", "s", "t", "u", "v", "w", "x", "y", "z",
     "0", "1", "2", "3", "4", "5", "6", "7", "8", "9"}

\* the {0,37} of the name pattern
SlugMiddleMax == 37

\* regexp.MustCompile(`^[a-z0-9](?:[a-z0-9\-]{0,37}[a-z0-9])?$`).MatchString(name)
SlugMatch(name) ==
    /\ Len(name) >= 1
    /\ name[1] \in LowerAlnum
    /\ \/ Len(name) = 1
       \/ \E k \in 0..SlugMiddleMax :
            /\ Len(name) = 1 + k + 1
            /\ \A i \in 2..(k + 1) : name[i] \in LowerAlnum \cup {"-"}
            /\ name[Len(name)] \in LowerAlnum

\* a check of the group and other bits only
InsecureModeMask(mode) == mode % 64 # 0

\* fileInfo.Mode().Perm() != 0600
InsecureMode(mode) == mode # SecureMode

\* if fileInfo, err := os.Stat(path); err == nil { ... } else if os.IsNotExist(err) { ... }
\* return nil
StatKeyFile(path, fs) ==
    IF fs[path].stat = "ok"
    THEN IF InsecureMode(fs[path].mode)
         THEN [err |-> ErrPermission, text |-> <<path, fs[path].mode>>]
         ELSE [err |-> nil, text |-> <<>>]
    ELSE IF fs[path].stat = "ENOENT"
    THEN [err |-> ErrNotExist, text |-> <<path>>]
    ELSE [err |-> nil, text |-> <<>>]

\* the key path checked before the name pattern
OrganizationValidatePathFirst(o, fs) ==
    IF o.Name = <<>> THEN [err |-> ErrEmptyOrganizationName, text |-> <<>>]
    ELSE IF o.SSHKeyPath = "" THEN [err |-> ErrEmptySSHKeyPath, text |-> <<>>]
    ELSE IF o.Name # Str_default /\ ~SlugMatch(o.Name)
    THEN [err |-> ErrInvalidOrgName, text |-> <<>>]
    ELSE StatKeyFile(o.SSHKeyPath, fs)

\* the error Organization.Validate returns (err), and the text it wraps
OrganizationValidate(o, fs) ==
    IF o.Name = <<>> THEN [err |-> ErrEmptyOrganizationName, text |-> <<>>]
    ELSE IF o.Name # Str_default /\ ~SlugMatch(o.Name)
    THEN [err |-> ErrInvalidOrgName, text |-> <<>>]
    ELSE IF o.SSHKeyPath = "" THEN [err |-> ErrEmptySSHKeyPath, text |-> <<>>]
    ELSE StatKeyFile(o.SSHKeyPath, fs)

----------------------------------------------------------------------------
(* The error of SetOrganization *)

\* a SetOrganization that validates the entry it is given
SetOrganizationErrValidating(orgs, name, sshKeyPath, isDefault) ==
    OrganizationValidate([Name |-> NameChars[name], SSHKeyPath |-> sshKeyPath,
                          IsDefault |-> isDefault], files).err

\* the error SetOrganization returns: its only return statement is return nil
SetOrganizationErr(orgs, name, sshKeyPath, isDefault) == nil

----------------------------------------------------------------------------
(* The registry file: package configfile *)

ErrConfigNotFound == "config file not found"

ErrHomeDirNotFound == "home directory not found"

\* the error of the JSON parser on a file that is not JSON
ErrSyntax == "json.SyntaxError"

\* an error of os.MkdirAll, os.OpenFile or the encoder
ErrWrite == "write failed"

\* The struct tags of Organization: the keys under which the JSON encoder
\* writes the fields, and those under which koanf looks for them.
JsonTags ==
    [Name |-> "name", SSHKeyPath |-> "ssh_key_path", IsDefault |-> "is_default"]

\* koanf tags that name the key path otherwise than the JSON tags
KoanfTagsCamel ==
    [Name |-> "name", SSHKeyPath |-> "sshKeyPath", IsDefault |-> "is_default"]

KoanfTags ==
    [Name |-> "name", SSHKeyPath |-> "ssh_key_path", IsDefault |-> "is_default"]

\* a key path that is not valid UTF-8: its last byte is 0xFF
Str_invalid_utf8 == "/home/u/key\\xff"

\* A string as encoding/json writes it and reads it back: bytes that are
\* not valid UTF-8 become the replacement character U+FFFD; every other
\* string is read back as it was.
CoerceUTF8(str) ==
    CASE str = Str_invalid_utf8 -> "/home/u/key\\ufffd"
      [] OTHER -> str

\* the JSON object written for an organization
EncodeOrganization(o) ==
    (JsonTags.Name :> CoerceUTF8(o.Name))
        @@ (JsonTags.SSHKeyPath :> CoerceUTF8(o.SSHKeyPath))
        @@ (JsonTags.IsDefault :> o.IsDefault)

\* encoder.Encode(cfg): the JSON document written for a Config
EncodeConfig(orgs) ==
    [organizations |-> [i \in 1..Len(orgs) |-> EncodeOrganization(orgs[i])]]

\* the value of a key of a JSON object, the zero value without the key
Field(object, key, zero) == IF key \in DOMAIN object THEN object[key] ELSE zero

\* k.Unmarshal("", &cfg): the Config read from a JSON document
UnmarshalConfig(doc) ==
    [i \in 1..Len(doc.organizations) |->
        [Name |-> Field(doc.organizations[i], KoanfTags.Name, ""),
         SSHKeyPath |-> Field(doc.organizations[i], KoanfTags.SSHKeyPath, ""),
         IsDefault |-> Field(doc.organizations[i], KoanfTags.IsDefault, FALSE)]]

\* the document of a registry file that is missing or cannot be parsed
NoDoc == [organizations |-> <<>>]

\* home: os.UserHomeDir() succeeds; config: the registry file is missing,
\* is not valid JSON, or holds the document doc, written for a registry
DiskStates(registries) ==
    [home : BOOLEAN, config : {"missing", "invalid"}, doc : {NoDoc}]
        \cup [home : BOOLEAN, config : {"ok"},
               doc : {EncodeConfig(r) : r \in registries}]

\* a home directory without a registry file
NoDisk == [home |-> TRUE, config |-> "missing", doc |-> NoDoc]

\* LoadConfig(): the error and the Config it returns
LoadConfig(d) ==
    IF ~d.home THEN [err |-> ErrHomeDirNotFound, orgs |-> <<>>]
    ELSE IF d.config = "missing" THEN [err |-> ErrConfigNotFound, orgs |-> <<>>]
    ELSE IF d.config = "invalid" THEN [err |-> ErrSyntax, orgs |-> <<>>]
    ELSE [err |-> nil, orgs |-> UnmarshalConfig(d.doc)]

\* What a WriteConfig can do: write the registry, fail before the file is
\* opened (MkdirAll, OpenFile), or fail after O_TRUNC emptied it.
WriteOutcomes == {"written", "not opened", "truncated"}

\* a WriteConfig that opens the file without O_TRUNC: the end of a longer
\* document stays behind the new one, and the file no longer parses
WriteConfigNoTrunc(d, orgs, outcome) ==
    IF ~d.home THEN [err |-> ErrHomeDirNotFound, disk |-> d]
    ELSE IF outcome = "written"
    THEN IF d.config = "ok" /\ Len(orgs) < Len(d.doc.organizations)
         THEN [err |-> nil, disk |-> [d EXCEPT !.config = "invalid", !.doc = NoDoc]]
         ELSE [err |-> nil,
               disk |-> [d EXCEPT !.config = "ok", !.doc = EncodeConfig(orgs)]]
    ELSE IF outcome = "not opened" THEN [err |-> ErrWrite, disk |-> d]
    ELSE [err |-> ErrWrite, disk |-> [d EXCEPT !.config = "invalid", !.doc = NoDoc]]

\* WriteConfig(cfg): the error it returns and the disk it leaves
WriteConfig(d, orgs, outcome) ==
    IF ~d.home THEN [err |-> ErrHomeDirNotFound, disk |-> d]
    ELSE IF outcome = "written"
    THEN [err |-> nil,
          disk |-> [d EXCEPT !.config = "ok", !.doc = EncodeConfig(orgs)]]
    ELSE IF outcome = "not opened" THEN [err |-> ErrWrite, disk |-> d]
    ELSE [err |-> ErrWrite, disk |-> [d EXCEPT !.config = "invalid", !.doc = NoDoc]]

----------------------------------------------------------------------------
(* The org set command: setOrganization in organizations.go *)

ErrNumArguments == "incorrect number of arguments"

\* utils.ExpandPath on the key paths given on the command line: ~ becomes
\* $HOME, and $HOME the home directory, here /home/u; a path with neither is
\* returned as it is.
ExpandPath(path) ==
    CASE path = "~/key2" -> "/home/u/key2"
      [] path = "$HOME/key2" -> "/home/u/key2"
      [] OTHER -> path

\* What the command returns (err), the disk it leaves, and whether it
\* reached SetOrganization, with which key path and what that returned.
OrgSet(d, args, isDefault, outcome) ==
    LET early(e) == [err |-> e, disk |-> d, reached |-> FALSE,
                     sshKeyPath |-> "", setErr |-> nil]
    IN  IF Len(args) # 2 THEN early(ErrNumArguments)
        ELSE IF args[1] = "" THEN early(ErrEmptyOrganizationName)
        ELSE IF args[2] = "" THEN early(ErrEmptySSHKeyPath)
        ELSE
            LET sshKeyPath == ExpandPath(args[2])
                load == LoadConfig(d)
            IN  IF load.err # nil /\ load.err # ErrConfigNotFound
                THEN early(load.err)
                ELSE
                    LET conf == IF load.err # nil THEN <<>> ELSE load.orgs
                        setErr == SetOrganizationErr(conf, args[1], sshKeyPath, isDefault)
                        w == WriteConfig(d, SetOrganization(conf, args[1], sshKeyPath,
                                                            isDefault), outcome)
                    IN  IF setErr # nil
                        THEN [err |-> setErr, disk |-> d, reached |-> TRUE,
                              sshKeyPath |-> sshKeyPath, setErr |-> setErr]
                        ELSE [err |-> w.err, disk |-> w.disk, reached |-> TRUE,
                              sshKeyPath |-> sshKeyPath, setErr |-> setErr]

----------------------------------------------------------------------------
(* The org remove command: removeOrganization in organizations.go *)

\* an org remove that takes a missing registry file for an empty registry,
\* as org set does
OrgRemoveLenient(d, args, outcome) ==
    IF Len(args) # 1 THEN [err |-> ErrNumArguments, disk |-> d]
    ELSE IF args[1] = "" THEN [err |-> ErrEmptyOrganizationName, disk |-> d]
    ELSE
        LET load == LoadConfig(d)
            conf == IF load.err # nil THEN <<>> ELSE load.orgs
        IN  IF load.err # nil /\ load.err # ErrConfigNotFound
            THEN [err |-> load.err, disk |-> d]
            ELSE IF RemoveErr(conf, args[1]) # nil
            THEN [err |-> RemoveErr(conf, args[1]), disk |-> d]
            ELSE WriteConfig(d, RemoveOrganization(conf, args[1]), outcome)

\* what the command returns (err) and the disk it leaves
OrgRemove(d, args, outcome) ==
    IF Len(args) # 1 THEN [err |-> ErrNumArguments, disk |-> d]
    ELSE IF args[1] = "" THEN [err |-> ErrEmptyOrganizationName, disk |-> d]
    ELSE
        LET load == LoadConfig(d)
        IN  IF load.err # nil THEN [err |-> load.err, disk |-> d]
            ELSE IF RemoveErr(load.orgs, args[1]) # nil
            THEN [err |-> RemoveErr(load.orgs, args[1]), disk |-> d]
            ELSE WriteConfig(d, RemoveOrganization(load.orgs, args[1]), outcome)

----------------------------------------------------------------------------
(* org set and org remove in two steps: up to LoadConfig, and from there *)

\* The command cmd up to its LoadConfig on the disk d: the error it returns
\* there (nil when it goes on) and the Config it goes on with.
LoadPhase(cmd, d) ==
    LET load == LoadConfig(d)
        stop(e) == [err |-> e, conf |-> <<>>]
    IN  IF cmd.op = "org set"
        THEN IF Len(cmd.args) # 2 THEN stop(ErrNumArguments)
             ELSE IF cmd.args[1] = "" THEN stop(ErrEmptyOrganizationName)
             ELSE IF cmd.args[2] = "" THEN stop(ErrEmptySSHKeyPath)
             ELSE IF load.err = ErrConfigNotFound THEN [err |-> nil, conf |-> <<>>]
             ELSE [err |-> load.err, conf |-> load.orgs]
        ELSE IF Len(cmd.args) # 1 THEN stop(ErrNumArguments)
             ELSE IF cmd.args[1] = "" THEN stop(ErrEmptyOrganizationName)
             ELSE [err |-> load.err, conf |-> load.orgs]

\* the Config the command makes of the Config it loaded, and the error of
\* SetOrganization or RemoveOrganization
Mutated(cmd, conf) ==
    IF cmd.op = "org set"
    THEN [err |-> SetOrganizationErr(conf, cmd.args[1], ExpandPath(cmd.args[2]),
                                     cmd.isDefault),
          orgs |-> SetOrganization(conf, cmd.args[1], ExpandPath(cmd.args[2]),
                                   cmd.isDefault)]
    ELSE [err |-> RemoveErr(conf, cmd.args[1]),
          orgs |-> RemoveOrganization(conf, cmd.args[1])]

\* The command cmd from the Config conf it loaded, on the disk d as it is
\* by now: the error it returns, the disk it leaves, and whether it called
\* WriteConfig.
WritePhase(cmd, conf, d, outcome) ==
    LET m == Mutated(cmd, conf)
        w == WriteConfig(d, m.orgs, outcome)
    IN  IF m.err # nil THEN [err |-> m.err, disk |-> d, wrote |-> FALSE]
        ELSE [err |-> w.err, disk |-> w.disk, wrote |-> TRUE]

----------------------------------------------------------------------------
(* Config.Validate *)

RECURSIVE ValidateBackwards(_, _, _)
\* the entries validated from the last to the first
ValidateBackwards(orgs, fs, i) ==
    IF i < 1 THEN [err |-> nil, text |-> <<>>]
    ELSE IF \E j \in (i + 1)..Len(orgs) : orgs[j].Name = orgs[i].Name
    THEN [err |-> ErrDuplicateOrganization, text |-> orgs[i].Name]
    ELSE IF OrganizationValidate(orgs[i], fs).err # nil
    THEN OrganizationValidate(orgs[i], fs)
    ELSE ValidateBackwards(orgs, fs, i - 1)

RECURSIVE ValidateLoop(_, _, _, _)
\* for _, org := range c.Organizations { ... }, from the entry at index i on,
\* nameSet holding the names of the entries before it
ValidateLoop(orgs, fs, i, nameSet) ==
    IF i > Len(orgs) THEN [err |-> nil, text |-> <<>>]
    ELSE IF orgs[i].Name \in nameSet
    THEN [err |-> ErrDuplicateOrganization, text |-> orgs[i].Name]
    ELSE IF OrganizationValidate(orgs[i], fs).err # nil
    THEN OrganizationValidate(orgs[i], fs)
    ELSE ValidateLoop(orgs, fs, i + 1, nameSet \cup {orgs[i].Name})

\* a loop that validates the entries in the reverse order
ConfigValidateReversed(orgs, fs) ==
    IF Len(orgs) = 0 THEN [err |-> ErrNoOrganizations, text |-> <<>>]
    ELSE ValidateBackwards(orgs, fs, Len(orgs))

\* the error Config.Validate returns (err), and the text it wraps
ConfigValidate(orgs, fs) ==
    IF Len(orgs) = 0 THEN [err |-> ErrNoOrganizations, text |-> <<>>]
    ELSE ValidateLoop(orgs, fs, 1, {})

----------------------------------------------------------------------------
(* Regular expressions, as far as package clone uses them *)

\* A compiled pattern is a sequence of pieces; a piece is a sequence of
\* one-character atoms repeated min to max times (max = -1: without bound).
\* The atoms: a literal character, . (any character but a newline) and
\* [^/] and [^:] (any character but a slash, but a colon).  A text is the
\* sequence of its characters.
Lit(c) == [kind |-> "lit", ch |-> c]

AnyChar == [kind |-> "any", ch |-> ""]

NotSlash == [kind |-> "notslash", ch |-> ""]

NotColon == [kind |-> "notcolon", ch |-> ""]

Once(atoms) == [atoms |-> atoms, min |-> 1, max |-> 1]

Literal(text) == Once([i \in 1..Len(text) |-> Lit(text[i])])

AtomMatches(atom, c) ==
    CASE atom.kind = "lit" -> c = atom.ch
      [] atom.kind = "any" -> c # "\n"
      [] atom.kind = "notslash" -> c # "/"
      [] atom.kind = "notcolon" -> c # ":"

\* the atoms match the text at position p
AtomsMatchAt(s, p, atoms) ==
    /\ p + Len(atoms) - 1 <= Len(s)
    /\ \A k \in 1..Len(atoms) : AtomMatches(atoms[k], s[p + k - 1])

RECURSIVE Reps(_, _, _)
\* how many times in a row the atoms match from position p
Reps(s, p, atoms) ==
    IF Len(atoms) > 0 /\ AtomsMatchAt(s, p, atoms)
    THEN 1 + Reps(s, p + Len(atoms), atoms)
    ELSE 0

\* the positions at which a match of the piece begun at p can end
PieceEnds(s, p, piece) ==
    LET n == Reps(s, p, piece.atoms)
        top == IF piece.max = -1 \/ n < piece.max THEN n ELSE piece.max
    IN  {p + k * Len(piece.atoms) : k \in piece.min..top}

RECURSIVE MatchEnds(_, _, _, _)
\* the positions at which a match of the pieces i, i+1, ... begun at p can end
MatchEnds(s, pieces, i, p) ==
    IF i > Len(pieces) THEN {p}
    ELSE UNION {MatchEnds(s, pieces, i + 1, e) : e \in PieceEnds(s, p, pieces[i])}

\* ^pieces$ matches the text
MatchString(pieces, s) == (Len(s) + 1) \in MatchEnds(s, pieces, 1, 1)

RECURSIVE PieceSpans(_, _, _, _)
\* The end of each piece i, i+1, ... in the match of ^pieces$ the matcher
\* reports: every piece is greedy, so each takes the longest stretch that
\* lets the rest match up to the end of the text.
PieceSpans(s, pieces, i, p) ==
    IF i > Len(pieces) THEN <<>>
    ELSE LET good == {e \in PieceEnds(s, p, pieces[i]) :
                        (Len(s) + 1) \in MatchEnds(s, pieces, i + 1, e)}
             e == CHOOSE x \in good : \A y \in good : y <= x
         IN  <<e>> \o PieceSpans(s, pieces, i + 1, e)

\* re.FindStringSubmatch(s) for ^pieces$ whose piece number group is the one
\* capturing group: <<>> without a match, else the match and the group
FindStringSubmatch(pieces, group, s) ==
    IF ~MatchString(pieces, s) THEN <<>>
    ELSE LET ends == PieceSpans(s, pieces, 1, 1)
             from == IF group = 1 THEN 1 ELSE ends[group - 1]
         IN  <<s, SubSeq(s, from, ends[group] - 1)>>

\* the characters regexp.QuoteMeta escapes
MetaChars == {"\\", ".", "+", "*", "?", "(", ")", "|", "[", "]", "{", "}", "^", "$"}

\* a QuoteMeta that escapes nothing
QuoteMetaNone(text) == text

RECURSIVE QuoteMeta(_)
\* regexp.QuoteMeta(text): a backslash before every metacharacter
QuoteMeta(text) ==
    IF text = <<>> THEN <<>>
    ELSE (IF Head(text) \in MetaChars THEN <<"\\", Head(text)>> ELSE <<Head(text)>>)
            \o QuoteMeta(Tail(text))

RECURSIVE CompileChars(_)
\* The atoms regexp.MustCompile makes of a pattern of plain and escaped
\* characters and dots: \c is the character c, a dot is any character.
CompileChars(pattern) ==
    IF pattern = <<>> THEN <<>>
    ELSE IF Head(pattern) = "\\" /\ Len(pattern) >= 2
    THEN <<Lit(pattern[2])>> \o CompileChars(Tail(Tail(pattern)))
    ELSE IF Head(pattern) = "."
    THEN <<AnyChar>> \o CompileChars(Tail(pattern))
    ELSE <<Lit(Head(pattern))>> \o CompileChars(Tail(pattern))

----------------------------------------------------------------------------
(* parseGitSSHRepoUrl *)

ErrInvalidRepoURLFormat == "invalid GitHub SSH URL format"

Str_git_at == <<"g", "i", "t", "@">>

Str_dot_git == <<".", "g", "i", "t">>

\* var sshHostName = "github.com"
sshHostName == <<"g", "i", "t", "h", "u", "b", ".", "c", "o", "m">>

\* `^git@%s:([^/]+)/[^/]+(?:\.git)?$` with QuoteMeta(host) for %s, compiled
RepoUrlPattern(host) ==
    << Literal(Str_git_at),
       Once(CompileChars(QuoteMeta(host))),
       Literal(<<":">>),
       [atoms |-> <<NotSlash>>, min |-> 1, max |-> -1],
       Literal(<<"/">>),
       [atoms |-> <<NotSlash>>, min |-> 1, max |-> -1],
       [atoms |-> Literal(Str_dot_git).atoms, min |-> 0, max |-> 1] >>

\* the piece of RepoUrlPattern in parentheses
RepoUrlGroup == 4

\* parseGitSSHRepoUrl(url) for the host name host: the organization and the
\* error it returns
parseGitSSHRepoUrl(host, url) ==
    LET matches == FindStringSubmatch(RepoUrlPattern(host), RepoUrlGroup, url)
    IN  IF Len(matches) # 2
        THEN [org |-> <<>>, err |-> ErrInvalidRepoURLFormat]
        ELSE [org |-> matches[2], err |-> nil]

----------------------------------------------------------------------------
(* CreateSSHConfigFile in sshconfig.go *)

Str_pub == <<".", "p", "u", "b">>

\* strings.HasSuffix as if it were strings.Contains
HasSuffixAnywhere(text, suffix) ==
    \E i \in 1..(Len(text) - Len(suffix) + 1) :
        SubSeq(text, i, i + Len(suffix) - 1) = suffix

\* strings.HasSuffix(text, suffix)
HasSuffix(text, suffix) ==
    /\ Len(text) >= Len(suffix)
    /\ SubSeq(text, Len(text) - Len(suffix) + 1, Len(text)) = suffix

\* the content: the Sprintf of lines 20-22 and the line of line 27
SSHConfigContent(host, sshKeyPath) ==
    <<"H", "o", "s", "t", " ">> \o host
        \o <<"\n", "\t">> \o <<"U", "s", "e", "r", " ", "g", "i", "t">>
        \o <<"\n", "\t">>
        \o <<"I", "d", "e", "n", "t", "i", "t", "y", "F", "i", "l", "e", " ">>
        \o sshKeyPath
        \o (IF HasSuffix(sshKeyPath, Str_pub)
            THEN <<"\n", "\t">>
                    \o <<"I", "d", "e", "n", "t", "i", "t", "i", "e", "s", "O", "n",
                         "l", "y", " ", "y", "e", "s">>
                    \o <<"\n">>
            ELSE <<>>)

\* the file names generateUUID can return
UUIDs == {"uuid-1", "uuid-2"}

\* the directory of SSH config files holding the file name with the content
WithFile(dir, name, content) ==
    [dir EXCEPT !.files = [n \in DOMAIN dir.files \cup {name} |->
                                IF n = name THEN content ELSE dir.files[n]]]

\* a CreateSSHConfigFile that reports a write cut short as a success
CreateSSHConfigFileDropsErr(host, sshKeyPath, dir, uuid, outcome) ==
    IF ~dir.exists \/ outcome = "not opened"
    THEN [path |-> uuid, err |-> ErrWrite, dir |-> dir]
    ELSE IF outcome = "truncated"
    THEN [path |-> uuid, err |-> nil, dir |-> WithFile(dir, uuid, <<>>)]
    ELSE [path |-> uuid, err |-> nil,
          dir |-> WithFile(dir, uuid, SSHConfigContent(host, sshKeyPath))]

\* CreateSSHConfigFile(sshHostName, sshKeyPath, configDir) when generateUUID
\* returns uuid: the path and the error it returns and the directory it
\* leaves.  os.WriteFile creates or truncates the file and writes it; it
\* fails before opening the file (always so without the directory), or
\* after, leaving it empty.
CreateSSHConfigFile(host, sshKeyPath, dir, uuid, outcome) ==
    LET sshConfig == SSHConfigContent(host, sshKeyPath)
    IN  IF ~dir.exists \/ outcome = "not opened"
        THEN [path |-> uuid, err |-> ErrWrite, dir |-> dir]
        ELSE IF outcome = "truncated"
        THEN [path |-> uuid, err |-> ErrWrite, dir |-> WithFile(dir, uuid, <<>>)]
        ELSE [path |-> uuid, err |-> nil, dir |-> WithFile(dir, uuid, sshConfig)]

----------------------------------------------------------------------------
(* CloneRepo in clone.go *)

ErrInvalidArgs == "exactly one argument is required"

ErrEmptyRepoURL == "repository URL is required"

ErrOrgNameNotFound == "organization name not found in the URL"

\* an error of os.MkdirAll
ErrMkdir == "mkdir failed"

\* an error of the git command
ErrRun == "exit status 128"

\* the characters of the key paths
PathChars ==
    [p \in Paths |->
        CASE p = "/path/to/key1" -> <<"/", "p", "a", "t", "h", "/", "t", "o", "/", "k", "e", "y", "1">>
          [] p = "/home/u/key2" -> <<"/", "h", "o", "m", "e", "/", "u", "/", "k", "e", "y", "2">>]

RECURSIVE FindOrg(_, _, _)
\* the index of the first entry from i on whose name is orgName, or 0
FindOrg(orgs, orgName, i) ==
    IF i > Len(orgs) THEN 0
    ELSE IF NameChars[orgs[i].Name] = orgName THEN i
    ELSE FindOrg(orgs, orgName, i + 1)

\* config.GetKeyPathForOrg(orgName): the key path of the entry of that very
\* name, ErrOrganizationNotFound without one
GetKeyPathForOrg(orgs, orgName) ==
    LET i == FindOrg(orgs, orgName, 1)
    IN  IF i = 0 THEN [sshKeyPath |-> "", err |-> ErrOrganizationNotFound]
        ELSE [sshKeyPath |-> orgs[i].SSHKeyPath, err |-> nil]

\* os.MkdirAll(dir, 0700): nothing to do for a directory that is there
MkdirAll(dir, mkdir) ==
    IF dir.exists \/ mkdir = "ok"
    THEN [err |-> nil, dir |-> [dir EXCEPT !.exists = TRUE]]
    ELSE [err |-> ErrMkdir, dir |-> dir]

\* the directory after somebody else removed the file name
WithoutFile(dir, name) ==
    [dir EXCEPT !.files = [n \in DOMAIN dir.files \ {name} |-> dir.files[n]]]

\* fileExists(path) for a file of the directory
fileExists(dir, name) == name \in DOMAIN dir.files

\* the generic pattern with .git required at the end
GenericUrlPatternDotGit ==
    << Literal(Str_git_at),
       [atoms |-> <<NotColon>>, min |-> 1, max |-> -1],
       Literal(<<":">>),
       [atoms |-> <<NotSlash>>, min |-> 1, max |-> -1],
       Literal(<<"/">>),
       [atoms |-> <<NotSlash>>, min |-> 1, max |-> -1],
       Literal(Str_dot_git) >>

\* `^git@[^:]+:[^/]+/[^/]+(?:\.git)?$`, compiled
GenericUrlPattern ==
    << Literal(Str_git_at),
       [atoms |-> <<NotColon>>, min |-> 1, max |-> -1],
       Literal(<<":">>),
       [atoms |-> <<NotSlash>>, min |-> 1, max |-> -1],
       Literal(<<"/">>),
       [atoms |-> <<NotSlash>>, min |-> 1, max |-> -1],
       [atoms |-> Literal(Str_dot_git).atoms, min |-> 0, max |-> 1] >>

\* cloneRepoUsingConfigFile(configPath, cloneURI, runner): the error it
\* returns, how often it called runner.Run, and the checks it passed.  run
\* is what runner.Run returns when called.
cloneRepoUsingConfigFile(dir, configPath, cloneURI, run) ==
    IF ~fileExists(dir, configPath)
    THEN [err |-> ErrNotExist, runs |-> 0, steps |-> <<>>]
    ELSE IF ~MatchString(GenericUrlPattern, cloneURI)
    THEN [err |-> ErrInvalidRepoURLFormat, runs |-> 0, steps |-> <<"exists">>]
    ELSE [err |-> run, runs |-> 1, steps |-> <<"exists", "revalidate">>]

\* a CloneRepo during which nothing outside fails
Smooth(uuid) ==
    [uuid |-> uuid, mkdir |-> "ok", outcome |-> "written", stillThere |-> TRUE,
     run |-> nil]

\* What the rest of the machine does during one CloneRepo: the name
\* generateUUID returns, whether MkdirAll can make the directory, how
\* os.WriteFile ends, whether the file written is still there when
\* cloneRepoUsingConfigFile looks for it, and what the git command returns.
\* CloneRepo stops at the first failure, so at most one thing fails.
CloneEnvs ==
    UNION {{ Smooth(u),
             [Smooth(u) EXCEPT !.mkdir = "failed"],
             [Smooth(u) EXCEPT !.outcome = "not opened"],
             [Smooth(u) EXCEPT !.outcome = "truncated"],
             [Smooth(u) EXCEPT !.stillThere = FALSE],
             [Smooth(u) EXCEPT !.run = ErrRun] } : u \in UUIDs}

\* what CloneRepo returns at a failure of its own: the error wrapped as
\* "cloneRepo: ...", the steps that succeeded and the directory it leaves
CloneFail(e, steps, dr) ==
    [err |-> e, wrapped |-> TRUE, runs |-> 0, dir |-> dr, steps |-> steps]

\* CloneRepo from its call of cloneRepoUsingConfigFile, whose return it hands
\* on as it is; found is the directory as that finds it
AfterFound(found, configPath, repoURL, env) ==
    [wrapped |-> FALSE, dir |-> found]
        @@ [cloneRepoUsingConfigFile(found, configPath, repoURL, env.run)
                EXCEPT !.steps = <<"args", "parse", "load", "keypath", "mkdir", "emit">>
                                    \o @]

\* the directory after CreateSSHConfigFile and what else happened to it
Found(emitted, env) ==
    IF env.stillThere THEN emitted.dir ELSE WithoutFile(emitted.dir, emitted.path)

\* CloneRepo from the return of CreateSSHConfigFile
AfterEmit(emitted, repoURL, env) ==
    IF emitted.err # nil
    THEN CloneFail(emitted.err, <<"args", "parse", "load", "keypath", "mkdir">>,
                   emitted.dir)
    ELSE AfterFound(Found(emitted, env), emitted.path, repoURL, env)

\* CloneRepo from the return of os.MkdirAll
AfterMkdir(made, sshKeyPath, host, repoURL, env) ==
    IF made.err # nil
    THEN CloneFail(made.err, <<"args", "parse", "load", "keypath">>, made.dir)
    ELSE AfterEmit(CreateSSHConfigFile(host, PathChars[sshKeyPath], made.dir,
                                       env.uuid, env.outcome), repoURL, env)

\* CloneRepo from the return of GetKeyPathForOrg
AfterKeyPath(key, host, dir, repoURL, env) ==
    IF key.err # nil THEN CloneFail(key.err, <<"args", "parse", "load">>, dir)
    ELSE AfterMkdir(MkdirAll(dir, env.mkdir), key.sshKeyPath, host, repoURL, env)

\* CloneRepo from the return of LoadConfig
AfterLoad(load, orgName, host, dir, repoURL, env) ==
    IF load.err # nil THEN CloneFail(load.err, <<"args", "parse">>, dir)
    ELSE AfterKeyPath(GetKeyPathForOrg(load.orgs, orgName), host, dir, repoURL, env)

\* CloneRepo from the return of parseGitSSHRepoUrl
AfterParse(parsed, host, d, dir, repoURL, env) ==
    IF parsed.err # nil THEN CloneFail(parsed.err, <<"args">>, dir)
    ELSE IF parsed.org = <<>> THEN CloneFail(ErrOrgNameNotFound, <<"args">>, dir)
    ELSE AfterLoad(LoadConfig(d), parsed.org, host, dir, repoURL, env)

\* CloneRepo with the command line args, for the host name host, the disk d
\* and the directory dir of SSH config files: the error it returns (err),
\* whether it is wrapped as "cloneRepo: ...", how often the runner was
\* called, the directory it leaves, and the steps that succeeded.
ClonePipeline(args, host, d, dir, env) ==
    IF Len(args) # 1 THEN CloneFail(ErrInvalidArgs, <<>>, dir)
    ELSE IF args[1] = <<>> THEN CloneFail(ErrEmptyRepoURL, <<>>, dir)
    ELSE AfterParse(parseGitSSHRepoUrl(host, args[1]), host, d, dir, args[1], env)

\* a CloneRepo that makes the directory before anything else
CloneRepoMkdirFirst(args, host, d, dir, env) ==
    ClonePipeline(args, host, d, MkdirAll(dir, env.mkdir).dir, env)

\* CloneRepo(ctx, c)
CloneRepo(args, host, d, dir, env) == ClonePipeline(args, host, d, dir, env)

----------------------------------------------------------------------------
(* Specifications *)

\* The registries a registry file can hold: any key paths and any flags, also
\* none or several defaults.  Names are pairwise distinct, the structural
\* invariant of a registry that Config.Validate checks; LoadConfig itself
\* does not check it.
LoadableRegistries ==
    {s \in UNION {[1..n -> Organization] : n \in 0..NumNames} :
        \A i, j \in 1..Len(s) : i # j => s[i].Name # s[j].Name}

\* &domain.Config{Organizations: []*domain.Organization{}}
Init ==
    /\ Organizations = <<>>
    /\ call = NoCall
    /\ err = nil
    /\ prev = <<>>
    /\ removeCalled = FALSE
    /\ files = NoFiles
    /\ out = <<>>
    /\ disk = NoDisk
    /\ input = NoInput
    /\ sshConfigDir = NoConfigDir
    /\ procs = NoProcs

\* a Config unmarshalled from the registry file
InitLoaded ==
    /\ Organizations \in LoadableRegistries
    /\ call = NoCall
    /\ err = nil
    /\ prev = Organizations
    /\ removeCalled = FALSE
    /\ files = NoFiles
    /\ out = <<>>
    /\ disk = NoDisk
    /\ input = NoInput
    /\ sshConfigDir = NoConfigDir
    /\ procs = NoProcs

SetOrganizationCall ==
    \E name \in Names, sshKeyPath \in Paths, isDefault \in BOOLEAN :
        /\ Organizations' = SetOrganization(Organizations, name, sshKeyPath, isDefault)
        /\ call' = [op |-> "SetOrganization", name |-> name,
                    sshKeyPath |-> sshKeyPath, isDefault |-> isDefault]
        /\ err' = SetOrganizationErr(Organizations, name, sshKeyPath, isDefault)
        /\ prev' = Organizations
        /\ UNCHANGED <<removeCalled, files, out, disk, input, sshConfigDir, procs>>

RemoveOrganizationCall ==
    \E name \in Names :
        /\ Organizations' = RemoveOrganization(Organizations, name)
        /\ call' = [op |-> "RemoveOrganization", name |-> name,
                    sshKeyPath |-> "", isDefault |-> FALSE]
        /\ err' = RemoveErr(Organizations, name)
        /\ prev' = Organizations
        /\ removeCalled' = TRUE
        /\ UNCHANGED <<files, out, disk, input, sshConfigDir, procs>>

Next ==
    \/ SetOrganizationCall
    \/ RemoveOrganizationCall

Spec == Init /\ [][Next]_vars

SpecLoaded == InitLoaded /\ [][Next]_vars

----------------------------------------------------------------------------
(* Specification of Organization.Validate *)

NameAlphabet == {"a", "1", "-", "A"}

\* n times the character c
Rep(c, n) == [i \in 1..n |-> c]

\* names around the longest the pattern admits, 39 characters
LongNames ==
    {Rep("a", 39), Rep("a", 40),
     <<"a">> \o Rep("-", 37) \o <<"a">>,
     <<"a">> \o Rep("-", 38) \o <<"a">>,
     Rep("a", 38) \o <<"-">>}

\* the names Organization.Validate is called with
NameInputs ==
    UNION {[1..n -> NameAlphabet] : n \in 0..MaxNameLen}
        \cup {Str_default} \cup LongNames

\* the key paths it is called with: the empty path and the key paths
PathInputs == {""} \cup KeyPaths

InitFiles ==
    /\ Organizations = <<>>
    /\ call = NoCall
    /\ err = nil
    /\ prev = <<>>
    /\ removeCalled = FALSE
    /\ files \in FileSystems
    /\ out = <<>>
    /\ disk = NoDisk
    /\ input \in [name : NameInputs, sshKeyPath : PathInputs]
    /\ sshConfigDir = NoConfigDir
    /\ procs = NoProcs

\* err := org.Validate()
OrganizationValidateCall ==
    LET o == [Name |-> input.name, SSHKeyPath |-> input.sshKeyPath,
              IsDefault |-> FALSE]
        r == OrganizationValidate(o, files)
    IN  /\ call' = [op |-> "Organization.Validate", name |-> input.name,
                    sshKeyPath |-> input.sshKeyPath, isDefault |-> FALSE]
        /\ err' = r.err
        /\ out' = r.text
        /\ UNCHANGED <<Organizations, prev, removeCalled, files, disk, input,
                       sshConfigDir, procs>>

SpecOrgValidate == InitFiles /\ [][OrganizationValidateCall]_vars

----------------------------------------------------------------------------
(* Specification of Config.Validate *)

\* the names of the entries handed to Config.Validate: the empty name, two
\* slugs and a name with an upper-case letter
ValNames == {<<>>, <<"a">>, <<"b">>, <<"A">>}

ValOrganization == [Name : ValNames, SSHKeyPath : PathInputs, IsDefault : {FALSE}]

\* any registry, also one with repeated names
ValRegistries == UNION {[1..n -> ValOrganization] : n \in 0..MaxValOrgs}

InitValidate ==
    /\ Organizations \in ValRegistries
    /\ call = NoCall
    /\ err = nil
    /\ prev = Organizations
    /\ removeCalled = FALSE
    /\ files \in FileSystems
    /\ out = <<>>
    /\ disk = NoDisk
    /\ input = NoInput
    /\ sshConfigDir = NoConfigDir
    /\ procs = NoProcs

\* err := config.Validate()
ConfigValidateCall ==
    LET r == ConfigValidate(Organizations, files)
    IN  /\ call' = [op |-> "Config.Validate", name |-> "", sshKeyPath |-> "",
                    isDefault |-> FALSE]
        /\ err' = r.err
        /\ out' = r.text
        /\ UNCHANGED <<Organizations, prev, removeCalled, files, disk, input,
                       sshConfigDir, procs>>

SpecValidate == InitValidate /\ [][ConfigValidateCall]_vars

----------------------------------------------------------------------------
(* Specification of the org set command *)

\* the organization names given on the command line: a slug, a name with an
\* upper-case letter, and the empty name
CliNames == {"org1", "Org1", ""}

\* the key paths given on the command line
CliPaths == {"/path/to/key1", "~/key2", ""}

\* the argument lists: one, two or three arguments
CliArgs ==
    {<<n>> : n \in CliNames}
        \cup {<<n, p>> : n \in CliNames, p \in CliPaths}
        \cup {<<n, p, p>> : n \in CliNames \ {""}, p \in CliPaths \ {""}}

\* every key file absent, or every key file present with mode 0600
CliFiles == {NoFiles, [p \in KeyPaths |-> [stat |-> "ok", mode |-> SecureMode]]}

InitCli ==
    /\ Organizations = <<>>
    /\ call = NoCall
    /\ err = nil
    /\ prev = <<>>
    /\ removeCalled = FALSE
    /\ files \in CliFiles
    /\ out = <<>>
    /\ disk \in DiskStates({<<>>})
    /\ input = NoInput
    /\ sshConfigDir = NoConfigDir
    /\ procs = NoProcs

\* ghc org set <name> <ssh_key_path> [--default]
OrgSetCommand ==
    \E args \in CliArgs, isDefault \in BOOLEAN, outcome \in WriteOutcomes :
        LET r == OrgSet(disk, args, isDefault, outcome)
        IN  /\ call' = [op |-> "org set", args |-> args, isDefault |-> isDefault]
            /\ err' = r.err
            /\ out' = [reached |-> r.reached, sshKeyPath |-> r.sshKeyPath,
                       setErr |-> r.setErr]
            /\ disk' = r.disk
            /\ UNCHANGED <<Organizations, prev, removeCalled, files, input,
                       sshConfigDir, procs>>

\* ghc org remove <name>
OrgRemoveCommand ==
    \E args \in CliArgs, outcome \in WriteOutcomes :
        LET r == OrgRemove(disk, args, outcome)
        IN  /\ call' = [op |-> "org remove", args |-> args, isDefault |-> FALSE]
            /\ err' = r.err
            /\ out' = <<>>
            /\ disk' = r.disk
            /\ UNCHANGED <<Organizations, prev, removeCalled, files, input,
                           sshConfigDir, procs>>

NextCli ==
    \/ OrgSetCommand
    \/ OrgRemoveCommand

SpecCli == InitCli /\ [][NextCli]_vars

----------------------------------------------------------------------------
(* Specification of parseGitSSHRepoUrl *)

\* the host names built in: the default and one set with -ldflags
Hosts == {sshHostName, <<"g", "h", ".", "m", "y", "-", "c", "o", ".", "i", "o">>}

\* the text with every dot replaced by the character c
Undotted(text, c) == [i \in 1..Len(text) |-> IF text[i] = "." THEN c ELSE text[i]]

\* How a URL begins: as it should, with another character for the dots of
\* the host, without the colon, with the colon doubled by a dot, with a
\* character before git@, and with a user other than git.
UrlHeads(host) ==
    { Str_git_at \o host \o <<":">>,
      Str_git_at \o Undotted(host, "x") \o <<":">>,
      Str_git_at \o host,
      <<"x">> \o Str_git_at \o host \o <<":">>,
      <<"g", "i", "t", "t", "@">> \o host \o <<":">> }

\* what follows is made of these
TailTokens == {<<"a">>, <<"/">>, Str_dot_git, <<":">>}

RECURSIVE Flatten(_)
Flatten(tokens) ==
    IF tokens = <<>> THEN <<>> ELSE Head(tokens) \o Flatten(Tail(tokens))

UrlTails == {Flatten(t) : t \in UNION {[1..n -> TailTokens] : n \in 0..MaxTail}}

\* the URLs a user may pass, for each host name
InitParse ==
    /\ Organizations = <<>>
    /\ call = NoCall
    /\ err = nil
    /\ prev = <<>>
    /\ removeCalled = FALSE
    /\ files = NoFiles
    /\ out = <<>>
    /\ disk = NoDisk
    /\ sshConfigDir = NoConfigDir
    /\ procs = NoProcs
    /\ \E host \in Hosts :
        \E head \in UrlHeads(host), tail \in UrlTails :
            input = [host |-> host, url |-> head \o tail]

\* orgName, err := parseGitSSHRepoUrl(repoURL)
ParseCall ==
    LET r == parseGitSSHRepoUrl(input.host, input.url)
    IN  /\ call' = [op |-> "parseGitSSHRepoUrl", host |-> input.host,
                    url |-> input.url]
        /\ err' = r.err
        /\ out' = r.org
        /\ UNCHANGED <<Organizations, prev, removeCalled, files, disk, input,
                       sshConfigDir, procs>>

SpecParse == InitParse /\ [][ParseCall]_vars

----------------------------------------------------------------------------
(* Specification of CreateSSHConfigFile *)

\* key paths that end with .pub, hold it elsewhere, or come close to it
KeyPathInputs ==
    { <<>>, <<"/", "k">>, <<"/", "k", ".", "p", "u", "b">>, <<"/", "k", ".", "p", "u", "b", ".", "b", "a", "k">>, <<".", "p", "u", "b">>, <<"/", "k", "p", "u", "b">>, <<"/", "k", ".", "P", "U", "B">>, <<"/", "k", ".", "p", "u">> }

\* the directory may or may not be there, with or without an earlier file
ConfigDirs ==
    { NoConfigDir, [exists |-> TRUE, files |-> <<>>] }

InitSSHConfig ==
    /\ Organizations = <<>>
    /\ call = NoCall
    /\ err = nil
    /\ prev = <<>>
    /\ removeCalled = FALSE
    /\ files = NoFiles
    /\ out = <<>>
    /\ disk = NoDisk
    /\ sshConfigDir \in ConfigDirs
    /\ procs = NoProcs
    /\ input \in [host : Hosts, sshKeyPath : KeyPathInputs]

\* configPath, err := sshconfig.CreateSSHConfigFile(sshHostName, sshKeyPath, dir)
CreateSSHConfigFileCall ==
    \E uuid \in UUIDs, outcome \in WriteOutcomes :
        LET r == CreateSSHConfigFile(input.host, input.sshKeyPath, sshConfigDir,
                                     uuid, outcome)
        IN  /\ call' = [op |-> "CreateSSHConfigFile", host |-> input.host,
                        sshKeyPath |-> input.sshKeyPath]
            /\ err' = r.err
            /\ out' = r.path
            /\ sshConfigDir' = r.dir
            /\ UNCHANGED <<Organizations, prev, removeCalled, files, disk, input,
                           procs>>

SpecSSHConfig == InitSSHConfig /\ [][CreateSSHConfigFileCall]_vars

----------------------------------------------------------------------------
(* Specification of CloneRepo *)

\* what follows git@github.com: in the URLs passed to ghc clone: repositories
\* of organizations that registries hold or may hold, one that none holds,
\* and a path of three segments
CloneUrlTails ==
    { <<"o", "r", "g", "1", "/", "a", ".", "g", "i", "t">>, <<"O", "r", "g", "1", "/", "a">>,
      <<"o", "r", "g", "2", "/", "a", ".", "g", "i", "t">>, <<"o", "r", "g", "3", "/", "a">>,
      <<"o", "r", "g", "1", "/", "a", "/", "a", ".", "g", "i", "t">> }

\* the repository URLs: for the host, for another host, and none
CloneUrls ==
    {Str_git_at \o sshHostName \o <<":">> \o t : t \in CloneUrlTails}
        \cup {Str_git_at \o Undotted(sshHostName, "x") \o <<":">> \o <<"o", "r", "g", "1", "/", "a", ".", "g", "i", "t">>, <<>>}

\* the arguments of ghc clone: one URL, none, or two
CloneArgs ==
    {<<>>} \cup {<<u>> : u \in CloneUrls}
        \cup {<<u, u>> : u \in {Str_git_at \o sshHostName \o <<":">> \o t :
                                    t \in CloneUrlTails}}

\* the registries the registry file holds: at most two entries of any
\* names and flags, the first with the first key path
CloneRegistries ==
    {r \in LoadableRegistries :
        /\ Len(r) <= 2
        /\ \A i \in 1..Len(r) : (r[i].SSHKeyPath = "/path/to/key1") <=> (i = 1)}

\* the disks: without a home directory nothing else matters
CloneDisks ==
    {d \in DiskStates(CloneRegistries) : d.home \/ d.config = "missing"}

\* the directory of SSH config files: missing, empty, or holding the file
\* of an earlier clone
CloneDirs ==
    ConfigDirs \cup {WithFile([exists |-> TRUE, files |-> <<>>], "uuid-1", <<>>)}

InitClone ==
    /\ Organizations = <<>>
    /\ call = NoCall
    /\ err = nil
    /\ prev = <<>>
    /\ removeCalled = FALSE
    /\ files = NoFiles
    /\ out = <<>>
    /\ disk \in CloneDisks
    /\ input \in [args : CloneArgs]
    /\ sshConfigDir \in CloneDirs
    /\ procs = NoProcs

\* ghc clone <repo_url>: the command calls CloneRepo once and ends
CloneRepoCall ==
    /\ call = NoCall
    /\ \E env \in CloneEnvs :
        \E r \in {CloneRepo(input.args, sshHostName, disk, sshConfigDir, env)} :
            /\ call' = [op |-> "CloneRepo", args |-> input.args, env |-> env]
            /\ err' = r.err
            /\ out' = [wrapped |-> r.wrapped, runs |-> r.runs, steps |-> r.steps,
                       dirBefore |-> sshConfigDir]
            /\ sshConfigDir' = r.dir
            /\ UNCHANGED <<Organizations, prev, removeCalled, files, disk, input,
                           procs>>

SpecClone == InitClone /\ [][CloneRepoCall]_vars

----------------------------------------------------------------------------
(* Specification of WriteConfig and LoadConfig *)

\* The organizations written: two names, the key paths and one that is not
\* valid UTF-8 (a file name is any bytes, and org set stores what it is given).
StoredOrganization ==
    [Name : {"org1", "Org1"}, SSHKeyPath : Paths \cup {Str_invalid_utf8},
     IsDefault : BOOLEAN]

\* the registries written: any entries, also with a name twice
StoredRegistries == UNION {[1..n -> StoredOrganization] : n \in 0..MaxValOrgs}

InitStore ==
    /\ Organizations \in StoredRegistries
    /\ call = NoCall
    /\ err = nil
    /\ prev = <<>>
    /\ removeCalled = FALSE
    /\ files = NoFiles
    /\ out = <<>>
    /\ disk \in DiskStates({<<>>})
    /\ input = NoInput
    /\ sshConfigDir = NoConfigDir
    /\ procs = NoProcs

\* err := configfile.WriteConfig(conf)
WriteConfigCall ==
    \E outcome \in WriteOutcomes :
        LET w == WriteConfig(disk, Organizations, outcome)
        IN  /\ call' = [op |-> "WriteConfig", after |-> call.op, afterErr |-> err]
            /\ err' = w.err
            /\ disk' = w.disk
            /\ out' = <<>>
            /\ UNCHANGED <<Organizations, prev, removeCalled, files, input,
                           sshConfigDir, procs>>

\* conf, err := configfile.LoadConfig(); out is the Config returned
LoadConfigCall ==
    LET l == LoadConfig(disk)
    IN  /\ call' = [op |-> "LoadConfig", after |-> call.op, afterErr |-> err]
        /\ err' = l.err
        /\ out' = l.orgs
        /\ UNCHANGED <<Organizations, prev, removeCalled, files, disk, input,
                       sshConfigDir, procs>>

NextStore ==
    \/ WriteConfigCall
    \/ LoadConfigCall

SpecStore == InitStore /\ [][NextStore]_vars

----------------------------------------------------------------------------
(* Specification of ghc commands running at the same time *)

\* the commands: two organizations set, each as default or not, and removed
RaceCommands ==
    [op : {"org set"}, args : {<<"org1", "/path/to/key1">>, <<"Org1", "/path/to/key1">>},
     isDefault : BOOLEAN]
        \cup [op : {"org remove"}, args : {<<"org1">>, <<"Org1">>}, isDefault : {FALSE}]

\* the registry file at the start: missing, or holding one or two entries
RaceDisks ==
    DiskStates({ <<[Name |-> "org1", SSHKeyPath |-> "/home/u/key2", IsDefault |-> TRUE]>>,
                 <<[Name |-> "org1", SSHKeyPath |-> "/home/u/key2", IsDefault |-> TRUE],
                   [Name |-> "Org1", SSHKeyPath |-> "/home/u/key2", IsDefault |-> FALSE]>> })

\* a command that has not started: pc is its place, conf the Config it
\* loaded, err the error it returned
Started(cmd) == [cmd |-> cmd, pc |-> "start", conf |-> <<>>, err |-> nil]

InitRace ==
    /\ Organizations = <<>>
    /\ call = NoCall
    /\ err = nil
    /\ prev = <<>>
    /\ removeCalled = FALSE
    /\ files = NoFiles
    /\ out = <<>>
    /\ disk \in {d \in RaceDisks : d.home /\ d.config # "invalid"}
    /\ input = NoInput
    /\ sshConfigDir = NoConfigDir
    /\ procs \in [1..NumProcs -> {Started(cmd) : cmd \in RaceCommands}]

\* the command p runs up to its LoadConfig
LoadStep(p) ==
    LET l == LoadPhase(procs[p].cmd, disk)
    IN  /\ procs[p].pc = "start"
        /\ procs' = [procs EXCEPT ![p].pc = IF l.err = nil THEN "loaded" ELSE "done",
                                  ![p].conf = l.conf,
                                  ![p].err = l.err]
        /\ UNCHANGED <<Organizations, call, err, prev, removeCalled, files, out,
                       disk, input, sshConfigDir>>

\* the command p runs from there to its end; out is the last command that
\* called WriteConfig, and whether that returned nil
WriteStep(p) ==
    \E outcome \in WriteOutcomes :
        LET w == WritePhase(procs[p].cmd, procs[p].conf, disk, outcome)
        IN  /\ procs[p].pc = "loaded"
            /\ procs' = [procs EXCEPT ![p].pc = "done", ![p].err = w.err]
            /\ disk' = w.disk
            /\ out' = IF w.wrote THEN [writer |-> p, ok |-> w.err = nil] ELSE out
            /\ UNCHANGED <<Organizations, call, err, prev, removeCalled, files,
                           input, sshConfigDir>>

NextRace ==
    \/ \E p \in 1..NumProcs : LoadStep(p)
    \/ \E p \in 1..NumProcs : WriteStep(p)

SpecRace == InitRace /\ [][NextRace]_vars

----------------------------------------------------------------------------
(* Vocabulary of the properties *)

Defaults(orgs) == {i \in 1..Len(orgs) : orgs[i].IsDefault}

HasName(orgs, name) == \E i \in 1..Len(orgs) : orgs[i].Name = name

IsSet == call.op = "SetOrganization"

IsRemove == call.op = "RemoveOrganization"

----------------------------------------------------------------------------
(* Default-selection invariants *)

\* C1: from the empty registry, after any sequence of SetOrganization and
\* RemoveOrganization calls, a registry of more than one entry has at most
\* one entry with IsDefault = true.
C1_AtMostOneDefault ==
    Len(Organizations) > 1 => Cardinality(Defaults(Organizations)) <= 1

\* the default moved: a second entry was made the default while another held it
C1_Witness ==
    /\ IsSet /\ call.isDefault
    /\ Len(prev) > 1
    /\ \E i \in Defaults(prev) : prev[i].Name # call.name
    /\ Cardinality(Defaults(Organizations)) = 1

\* C2: from the empty registry, after any sequence of SetOrganization calls
\* that leaves the registry non-empty, exactly one entry has IsDefault = true.
C2_ExactlyOneDefaultAfterSets ==
    (~removeCalled /\ Len(Organizations) > 0)
        => Cardinality(Defaults(Organizations)) = 1

\* C3: in every state reachable from the empty registry by SetOrganization
\* and RemoveOrganization calls, a registry of exactly one organization has
\* that organization marked IsDefault = true.
C3_SoleOrganizationIsDefault ==
    Len(Organizations) = 1 => Organizations[1].IsDefault

\* C4: immediately after a SetOrganization call, a registry of exactly one
\* entry has that entry marked IsDefault = true, whatever flag was passed.
C4_SetForcesSoleDefault ==
    (IsSet /\ Len(Organizations) = 1) => Organizations[1].IsDefault

\* SetOrganization(name, path, false) on the empty registry
C4_Witness ==
    /\ IsSet /\ ~call.isDefault
    /\ prev = <<>>
    /\ Len(Organizations) = 1 /\ Organizations[1].IsDefault

----------------------------------------------------------------------------
(* RemoveOrganization *)

C6_FailedRemoveChangesNothing ==
    IsRemove =>
        /\ ~HasName(prev, call.name) => err = ErrOrganizationNotFound
        /\ err # nil => Organizations = prev

\* a name differing only in case from an entry's name was not found
C6_Witness ==
    /\ IsRemove
    /\ call.name = "Org1" /\ HasName(prev, "org1") /\ ~HasName(prev, "Org1")
    /\ err = ErrOrganizationNotFound
    /\ Organizations = prev

\* C7: a successful RemoveOrganization(name) deletes exactly the one entry
\* with that name; the other entries keep their relative order, SSHKeyPath
\* and IsDefault.
C7_RemoveDeletesExactlyOne ==
    (IsRemove /\ err = nil) =>
        \E i \in 1..Len(prev) :
            /\ prev[i].Name = call.name
            /\ \A j \in 1..Len(prev) : prev[j].Name = call.name => j = i
            /\ Len(Organizations) = Len(prev) - 1
            /\ \A j \in 1..(i - 1) : Organizations[j] = prev[j]
            /\ \A j \in i..Len(Organizations) : Organizations[j] = prev[j + 1]

\* an entry was removed from the front of three, two entries shifting down
C7_Witness ==
    /\ IsRemove /\ err = nil
    /\ Len(prev) = 3 /\ prev[1].Name = call.name
    /\ Organizations = <<prev[2], prev[3]>>

----------------------------------------------------------------------------
(* SetOrganization *)

\* C8: from the empty registry, after any sequence of SetOrganization and
\* RemoveOrganization calls, no two entries share a name.
C8_NamesUnique ==
    \A i, j \in 1..Len(Organizations) :
        i # j => Organizations[i].Name # Organizations[j].Name

\* an existing name was set again while other entries, one of them differing
\* only in case, were present
C8_Witness ==
    /\ IsSet /\ HasName(prev, call.name)
    /\ Len(Organizations) > 1
    /\ HasName(Organizations, "org1") /\ HasName(Organizations, "Org1")

\* C9 as stated: SetOrganization on an existing name keeps the length and
\* every position and overwrites that entry's SSHKeyPath and IsDefault with
\* the arguments; on a new name it appends an entry at the end and keeps the
\* order of the existing entries.
C9_UpsertAsStated ==
    IsSet =>
        IF HasName(prev, call.name)
        THEN /\ Len(Organizations) = Len(prev)
             /\ \A i \in 1..Len(prev) :
                    /\ Organizations[i].Name = prev[i].Name
                    /\ IF prev[i].Name = call.name
                       THEN /\ Organizations[i].SSHKeyPath = call.sshKeyPath
                            /\ Organizations[i].IsDefault = call.isDefault
                       ELSE Organizations[i].SSHKeyPath = prev[i].SSHKeyPath
        ELSE /\ Len(Organizations) = Len(prev) + 1
             /\ Organizations[Len(Organizations)].Name = call.name
             /\ Organizations[Len(Organizations)].SSHKeyPath = call.sshKeyPath
             /\ \A i \in 1..Len(prev) :
                    /\ Organizations[i].Name = prev[i].Name
                    /\ Organizations[i].SSHKeyPath = prev[i].SSHKeyPath

\* the IsDefault a SetOrganization call leaves on the entry it names
C9_FlagWritten == call.isDefault \/ Len(Organizations) = 1

\* C9 amended: SetOrganization on an existing name keeps the length and every
\* position, overwrites that entry's SSHKeyPath with the argument and its
\* IsDefault with the argument, except that IsDefault is true when the entry
\* is the only one; on a new name it appends an entry at the end, with the
\* same rule for its IsDefault, and keeps the order of the existing entries.
\* The other entries keep their SSHKeyPath, and keep their IsDefault unless
\* isDefault is true, which clears it.
C9_Upsert ==
    IsSet =>
        /\ Len(Organizations) = Len(prev) + (IF HasName(prev, call.name) THEN 0 ELSE 1)
        /\ \A i \in 1..Len(prev) :
                /\ Organizations[i].Name = prev[i].Name
                /\ prev[i].Name # call.name =>
                        /\ Organizations[i].SSHKeyPath = prev[i].SSHKeyPath
                        /\ Organizations[i].IsDefault =
                                (prev[i].IsDefault /\ ~call.isDefault)
        /\ \A i \in 1..Len(Organizations) :
                (i > Len(prev) \/ Organizations[i].Name = call.name) =>
                        /\ Organizations[i].Name = call.name
                        /\ Organizations[i].SSHKeyPath = call.sshKeyPath
                        /\ Organizations[i].IsDefault = C9_FlagWritten

\* the middle entry of three was updated in place with a new key path
C9_Witness ==
    /\ IsSet
    /\ Len(prev) = 3 /\ prev[2].Name = call.name
    /\ prev[2].SSHKeyPath # call.sshKeyPath
    /\ Len(Organizations) = 3
    /\ Organizations[2].SSHKeyPath = call.sshKeyPath

\* C10: after SetOrganization(name, path, true) the entry named name has
\* IsDefault = true and every other entry has IsDefault = false.
C10_SetDefaultIsExclusive ==
    (IsSet /\ call.isDefault) =>
        /\ HasName(Organizations, call.name)
        /\ \A i \in 1..Len(Organizations) :
                Organizations[i].IsDefault <=> (Organizations[i].Name = call.name)

\* a later entry was made the default while an earlier one held it
C10_Witness ==
    /\ IsSet /\ call.isDefault
    /\ Len(prev) > 1 /\ prev[1].IsDefault /\ prev[1].Name # call.name
    /\ HasName(prev, call.name)
    /\ ~Organizations[1].IsDefault

IsOrgSet == call.op = "org set"

\* C12: setting an organization rejects an entry that fails validation:
\* SetOrganization with a key path that does not exist fails with
\* os.ErrNotExist, for a new and for an existing organization, and the org set
\* command with a name that does not match the name pattern fails with
\* ErrInvalidOrgName.
C12_SetRejectsInvalidEntry ==
    (IsOrgSet /\ out.reached) =>
        /\ (/\ SlugMatch(NameChars[call.args[1]])
            /\ files[out.sshKeyPath].stat = "ENOENT") => out.setErr = ErrNotExist
        /\ ~SlugMatch(NameChars[call.args[1]]) => err = ErrInvalidOrgName

----------------------------------------------------------------------------
(* Organization.Validate *)

IsOrgValidate == call.op = "Organization.Validate"

\* the slug pattern in words: 1 to 39 lowercase letters, digits and hyphens,
\* neither starting nor ending with a hyphen
IsSlug(name) ==
    /\ Len(name) \in 1..39
    /\ \A i \in 1..Len(name) : name[i] \in LowerAlnum \cup {"-"}
    /\ name[1] # "-" /\ name[Len(name)] # "-"

\* the name passes the name checks of Organization.Validate
NameAccepted(name) == name = Str_default \/ IsSlug(name)

\* C15: Organization.Validate returns the first failure in a fixed order:
\* an empty name gives ErrEmptyOrganizationName; otherwise a name that is
\* neither "default" nor a slug gives ErrInvalidOrgName; otherwise an empty
\* key path gives ErrEmptySSHKeyPath; only then does the key file decide.
\* The name "default" is accepted.
C15_ValidateOrder ==
    IsOrgValidate =>
        /\ call.name = <<>> => err = ErrEmptyOrganizationName
        /\ (call.name # <<>> /\ ~NameAccepted(call.name)) => err = ErrInvalidOrgName
        /\ (NameAccepted(call.name) /\ call.sshKeyPath = "") => err = ErrEmptySSHKeyPath
        /\ err \in {ErrNotExist, ErrPermission} =>
                (NameAccepted(call.name) /\ call.sshKeyPath # "")
        /\ call.name = Str_default =>
                err \notin {ErrEmptyOrganizationName, ErrInvalidOrgName}

\* an invalid name with an empty key path and no key file: the name is reported
C15_Witness ==
    /\ IsOrgValidate
    /\ call.name = <<"a", "-">> /\ call.sshKeyPath = ""
    /\ err = ErrInvalidOrgName

\* C16: with a valid name and a non-empty key path, an absent key file gives
\* a not-found error, a key file of a mode other than 0600 gives a permission
\* error, which is not the not-found error, and a key file of mode 0600
\* gives nil.
C16_KeyFileOutcomes ==
    (IsOrgValidate /\ NameAccepted(call.name) /\ call.sshKeyPath # "") =>
        LET f == files[call.sshKeyPath]
        IN  /\ f.stat = "ENOENT" => err = ErrNotExist
            /\ (f.stat = "ok" /\ f.mode # 384) => err = ErrPermission
            /\ (f.stat = "ok" /\ f.mode = 384) => err = nil
            /\ ErrPermission # ErrNotExist

\* a key file of mode 0644 was refused
C16_Witness ==
    /\ IsOrgValidate /\ NameAccepted(call.name) /\ call.sshKeyPath = "/path/to/key1"
    /\ files["/path/to/key1"] = [stat |-> "ok", mode |-> 420]
    /\ err = ErrPermission
    /\ out = <<"/path/to/key1", 420>>

\* C17: when the stat of the key file fails with an error other than
\* not-found, Organization.Validate returns a failure, not nil.
C17_StatFailurePropagates ==
    (/\ IsOrgValidate /\ NameAccepted(call.name) /\ call.sshKeyPath # ""
     /\ files[call.sshKeyPath].stat \notin {"ok", "ENOENT"})
        => err # nil

----------------------------------------------------------------------------
(* Config.Validate *)

IsConfigValidate == call.op = "Config.Validate"

\* the names that two entries of the registry share
SharedNames(orgs) ==
    {orgs[i].Name : i \in {k \in 1..Len(orgs) :
                            \E j \in 1..Len(orgs) : j # k /\ orgs[j].Name = orgs[k].Name}}

\* the entries that fail Organization.Validate
Failing(orgs, fs) ==
    {i \in 1..Len(orgs) : OrganizationValidate(orgs[i], fs).err # nil}

\* C13: Config.Validate on a registry in which two entries share a name fails
\* with ErrDuplicateOrganization naming the duplicate, whatever the validity
\* of the entries.
C13_DuplicateTakesPrecedence ==
    (IsConfigValidate /\ SharedNames(Organizations) # {}) =>
        /\ err = ErrDuplicateOrganization
        /\ out \in SharedNames(Organizations)

\* C14: Config.Validate fails with ErrNoOrganizations on an empty registry;
\* on a non-empty registry of pairwise distinct names it returns the error of
\* the first entry, in registry order, that fails Organization.Validate, and
\* nil exactly when no entry fails.
C14_FirstFailure ==
    IsConfigValidate =>
        /\ Len(Organizations) = 0 => err = ErrNoOrganizations
        /\ (Len(Organizations) > 0 /\ SharedNames(Organizations) = {}) =>
            LET failing == Failing(Organizations, files)
            IN  /\ (err = nil) <=> (failing = {})
                /\ failing # {} =>
                    LET first == CHOOSE i \in failing : \A j \in failing : i <= j
                        r == OrganizationValidate(Organizations[first], files)
                    IN  err = r.err /\ out = r.text

\* two entries fail differently and the first one's error is returned
C14_Witness ==
    /\ IsConfigValidate
    /\ Len(Organizations) = 2
    /\ SharedNames(Organizations) = {}
    /\ Failing(Organizations, files) = {1, 2}
    /\ OrganizationValidate(Organizations[2], files).err # err
    /\ err = ErrNotExist

----------------------------------------------------------------------------
(* parseGitSSHRepoUrl *)

IsParse == call.op = "parseGitSSHRepoUrl"

NoSlash(text) == \A i \in 1..Len(text) : text[i] # "/"

\* url is git@host:org/repo for some non-empty repo without a slash (a
\* repo followed by .git is such a repo)
HasRepoUrlForm(url, host, org) ==
    LET head == Str_git_at \o host \o <<":">>
        n == Len(head) + Len(org)
    IN  /\ org # <<>> /\ NoSlash(org)
        /\ Len(url) >= n + 2
        /\ SubSeq(url, 1, n) = head \o org
        /\ url[n + 1] = "/"
        /\ NoSlash(SubSeq(url, n + 2, Len(url)))

\* the texts url begins with after its first Len(head) characters
OrgCandidates(url, host) ==
    LET h == Len(host) + 5
    IN  {SubSeq(url, h + 1, k) : k \in h..Len(url)}

\* C18: for the host H, parseGitSSHRepoUrl(url) returns org exactly when url is
\* git@H:<org>/<repo>, with or without .git at the end, org and repo non-empty
\* and without a slash, H matched literally; every other url fails with
\* ErrInvalidRepoURLFormat.
C18_ParseReturnsOrg ==
    IsParse =>
        /\ \A org \in OrgCandidates(call.url, call.host) :
                HasRepoUrlForm(call.url, call.host, org) => (err = nil /\ out = org)
        /\ (\A org \in OrgCandidates(call.url, call.host) :
                ~HasRepoUrlForm(call.url, call.host, org))
                    => (err = ErrInvalidRepoURLFormat /\ out = <<>>)

\* git@github.com:a/a.git gave a
C18_Witness ==
    /\ IsParse /\ call.host = sshHostName
    /\ call.url = Str_git_at \o sshHostName \o <<":", "a", "/", "a">> \o Str_dot_git
    /\ err = nil /\ out = <<"a">>

\* an extra path segment was refused
C18_WitnessExtraSegment ==
    /\ IsParse /\ call.host = sshHostName
    /\ call.url = Str_git_at \o sshHostName \o <<":", "a", "/", "a", "/", "a">>
    /\ err = ErrInvalidRepoURLFormat

----------------------------------------------------------------------------
(* CreateSSHConfigFile *)

IsCreate == call.op = "CreateSSHConfigFile"

RECURSIVE SplitLines(_)
\* the lines of a text: what stands between its line breaks, a line break
\* at the end of the text ending the last line
SplitLines(text) ==
    IF text = <<>> THEN <<>>
    ELSE IF \E i \in 1..Len(text) : text[i] = "\n"
    THEN LET i == CHOOSE j \in 1..Len(text) :
                    text[j] = "\n" /\ \A k \in 1..(j - 1) : text[k] # "\n"
         IN  <<SubSeq(text, 1, i - 1)>> \o SplitLines(SubSeq(text, i + 1, Len(text)))
    ELSE <<text>>

C19_HeadLines ==
    << <<"H", "o", "s", "t", " ">> \o call.host,
       <<"\t">> \o <<"U", "s", "e", "r", " ", "g", "i", "t">>,
       <<"\t">> \o <<"I", "d", "e", "n", "t", "i", "t", "y", "F", "i", "l", "e", " ">> \o call.sshKeyPath >>

C19_EndsWithPub ==
    LET n == Len(call.sshKeyPath)
    IN  n >= 4 /\ call.sshKeyPath[n - 3] = "." /\ call.sshKeyPath[n - 2] = "p"
               /\ call.sshKeyPath[n - 1] = "u" /\ call.sshKeyPath[n] = "b"

\* C19: the fragment CreateSSHConfigFile writes consists of the lines
\* "Host <host>", tab "User git" and tab "IdentityFile <keyPath>", followed by
\* the line tab "IdentitiesOnly yes" exactly when keyPath ends with ".pub".
C19_Fragment ==
    (IsCreate /\ err = nil) =>
        /\ out \in DOMAIN sshConfigDir.files
        /\ SplitLines(sshConfigDir.files[out]) =
                IF C19_EndsWithPub
                THEN C19_HeadLines \o << <<"\t">> \o <<"I", "d", "e", "n", "t", "i", "t", "i", "e", "s", "O", "n", "l", "y", " ", "y", "e", "s">> >>
                ELSE C19_HeadLines

\* a fragment was written for a key path ending with .pub
C19_Witness ==
    /\ IsCreate /\ err = nil /\ C19_EndsWithPub
    /\ Len(SplitLines(sshConfigDir.files[out])) = 4

\* a fragment was written for a key path holding .pub before its end
C19_WitnessInside ==
    /\ IsCreate /\ err = nil
    /\ call.sshKeyPath = <<"/", "k", ".", "p", "u", "b", ".", "b", "a", "k">>
    /\ Len(SplitLines(sshConfigDir.files[out])) = 3

----------------------------------------------------------------------------
(* CloneRepo *)

IsClone == call.op = "CloneRepo"

\* the registry in the registry file
C21_Registry == UnmarshalConfig(disk.doc)

\* the organization of a URL git@github.com:<org>/<repo>, <<>> for another URL
C21_UrlOrgs ==
    IF Len(call.args) # 1 THEN {}
    ELSE {org \in OrgCandidates(call.args[1], sshHostName) :
            HasRepoUrlForm(call.args[1], sshHostName, org)}

\* every step before the external command succeeds: one argument, a URL
\* of the host, a registry file that loads, an entry of the URL's
\* organization, a directory that is there or can be made, a config file
\* written whole, and a URL of the generic form
C21_StepsSucceed ==
    /\ Len(call.args) = 1
    /\ C21_UrlOrgs # {}
    /\ disk.home /\ disk.config = "ok"
    /\ \E org \in C21_UrlOrgs :
        \E i \in 1..Len(C21_Registry) : NameChars[C21_Registry[i].Name] = org
    /\ out.dirBefore.exists \/ call.env.mkdir = "ok"
    /\ call.env.outcome = "written"
    /\ \E i \in 6..Len(call.args[1]) :
        /\ call.args[1][i] = ":"
        /\ \A j \in 5..(i - 1) : call.args[1][j] # ":"

\* C21: one CloneRepo calls the external command runner at most once, and only
\* after argument check, URL parsing, registry load, key-path resolution,
\* directory creation, SSH-config emission and URL re-validation succeeded;
\* when one of them fails CloneRepo returns an error and runs no command.
C21_RunsOnceAfterAllSteps ==
    IsClone =>
        /\ out.runs \in {0, 1}
        /\ out.runs = 1 => C21_StepsSucceed
        /\ ~C21_StepsSucceed => (err # nil /\ out.runs = 0)

\* a clone ran the command, and the command failed
C21_Witness ==
    /\ IsClone /\ out.runs = 1 /\ err = ErrRun

\* a clone stopped at the emission of the config file
C21_WitnessEmitFailed ==
    /\ IsClone /\ out.runs = 0 /\ call.env.outcome = "truncated"
    /\ out.steps = <<"args", "parse", "load", "keypath", "mkdir">>

\* C22: every error CloneRepo returns, whichever step fails (the check for the
\* config file, the URL re-validation and the external command included), is
\* wrapped with the name of the pipeline stage, "cloneRepo: ...".
C22_ErrorsWrapped ==
    (IsClone /\ err # nil) => out.wrapped

\* the registry was loaded and holds no entry of the very name the URL gives
C25_NoExactEntry ==
    /\ IsClone
    /\ C21_UrlOrgs # {}
    /\ disk.home /\ disk.config = "ok"
    /\ \A org \in C21_UrlOrgs :
        \A i \in 1..Len(C21_Registry) : NameChars[C21_Registry[i].Name] # org

\* C25: when the organization parsed from the URL has no entry of that exact
\* name in the loaded registry, CloneRepo fails with the organization-not-found
\* error even if some entry is the default, and that invocation creates no SSH
\* config directory or file and runs no external command.
C25_NoDefaultFallback ==
    C25_NoExactEntry =>
        /\ err = ErrOrganizationNotFound
        /\ sshConfigDir = out.dirBefore
        /\ out.runs = 0

\* a clone of git@github.com:Org1/a found only org1, the default, and no
\* directory was there
C25_Witness ==
    /\ C25_NoExactEntry
    /\ \E i \in 1..Len(C21_Registry) :
            C21_Registry[i].IsDefault /\ C21_Registry[i].Name = "org1"
    /\ call.args[1] = Str_git_at \o sshHostName \o <<":", "O", "r", "g", "1", "/", "a">>
    /\ call.env.mkdir = "ok"
    /\ ~out.dirBefore.exists

----------------------------------------------------------------------------
(* The two URL patterns *)

\* C27: for a host that is not empty and holds no colon, every URL that
\* parseGitSSHRepoUrl accepts matches the generic pattern of
\* cloneRepoUsingConfigFile, so the re-validation in CloneRepo never rejects
\* a URL that was parsed.
C27_ParsedUrlIsGeneric ==
    (/\ IsParse
     /\ call.host # <<>> /\ \A i \in 1..Len(call.host) : call.host[i] # ":"
     /\ err = nil)
        => MatchString(GenericUrlPattern, call.url)

\* a URL without .git at its end and with a colon in the organization was
\* parsed
C27_Witness ==
    /\ IsParse /\ err = nil
    /\ call.url = Str_git_at \o sshHostName \o <<":", "a", ":", "a", "/", "a">>
    /\ MatchString(GenericUrlPattern, call.url)

----------------------------------------------------------------------------
(* WriteConfig and LoadConfig *)

\* LoadConfig was called right after a WriteConfig that returned nil
C23_LoadedAfterWrite ==
    call.op = "LoadConfig" /\ call.after = "WriteConfig" /\ call.afterErr = nil

\* C23: for every registry, WriteConfig followed by LoadConfig on the same
\* path yields a registry with the same organizations (name, key path,
\* default flag) in the same order.
C23_RoundTrip ==
    C23_LoadedAfterWrite => (err = nil /\ out = Organizations)

\* the same for the registries whose strings are valid UTF-8
C23_RoundTripOfValidUTF8 ==
    (/\ C23_LoadedAfterWrite
     /\ \A i \in 1..Len(Organizations) :
            Organizations[i].SSHKeyPath # Str_invalid_utf8)
        => (err = nil /\ out = Organizations)

\* a registry of two entries of one name was written and loaded
C23_WitnessValidUTF8 ==
    /\ C23_LoadedAfterWrite
    /\ Len(Organizations) = 2 /\ Organizations[1].Name = Organizations[2].Name
    /\ out = Organizations

----------------------------------------------------------------------------
(* The org set and org remove commands and the registry file *)

IsOrgRemove == call.op = "org remove"

\* the registry file is there and can be parsed
C26_Loads == disk.home /\ disk.config = "ok"

\* the registry in the registry file
C26_Registry == UnmarshalConfig(disk.doc)

\* RemoveOrganization(name) fails on the registry of the file: no entry of
\* that name, or the entry is the default and not the only one
C26_RemoveFails(name) ==
    \/ \A i \in 1..Len(C26_Registry) : C26_Registry[i].Name # name
    \/ /\ Len(C26_Registry) > 1
       /\ \E i \in 1..Len(C26_Registry) :
            /\ C26_Registry[i].Name = name
            /\ \A j \in 1..(i - 1) : C26_Registry[j].Name # name
            /\ C26_Registry[i].IsDefault

\* the org set of this step must leave the disk as it is: wrong number of
\* arguments, empty name or key path, or a registry file that is there and
\* does not load
C26_SetMustNotWrite ==
    /\ call'.op = "org set"
    /\ \/ Len(call'.args) # 2
       \/ call'.args[1] = "" \/ call'.args[2] = ""
       \/ ~disk.home
       \/ disk.config = "invalid"

\* the org remove of this step must leave the disk as it is: wrong number of
\* arguments, empty name, a registry file that does not load, or a
\* RemoveOrganization that fails
C26_RemoveMustNotWrite ==
    /\ call'.op = "org remove"
    /\ \/ Len(call'.args) # 1
       \/ call'.args[1] = ""
       \/ ~C26_Loads
       \/ C26_RemoveFails(call'.args[1])

\* C26: org set and org remove write the registry file only after the
\* operation in memory succeeded: on a wrong argument count, an empty name or
\* key path, a load failure or a RemoveOrganization error the file is left as
\* it was; org set takes a missing registry file for an empty registry and
\* creates it, org remove fails on it with ErrConfigNotFound and creates
\* nothing.
C26_WriteOnlyAfterSuccess ==
    [][ /\ (C26_SetMustNotWrite \/ C26_RemoveMustNotWrite)
            => (disk' = disk /\ err' # nil)
        /\ (/\ call'.op = "org set" /\ ~C26_SetMustNotWrite
            /\ disk.config = "missing")
            => /\ err' # ErrConfigNotFound
               /\ err' = nil =>
                    /\ disk'.config = "ok"
                    /\ UnmarshalConfig(disk'.doc) =
                        <<[Name |-> call'.args[1],
                           SSHKeyPath |-> ExpandPath(call'.args[2]),
                           IsDefault |-> TRUE]>>
        /\ (/\ call'.op = "org remove" /\ Len(call'.args) = 1
            /\ call'.args[1] # "" /\ disk.home /\ disk.config = "missing")
            => (err' = ErrConfigNotFound /\ disk' = disk)
      ]_vars

\* an org remove of the default organization of two was refused and the
\* registry file still holds both
C26_Witness ==
    /\ IsOrgRemove /\ err = ErrCantRemoveDefault
    /\ Len(C26_Registry) = 2

\* an org remove found no registry file and made none
C26_WitnessMissing ==
    /\ IsOrgRemove /\ err = ErrConfigNotFound /\ disk.config = "missing"

\* an org set made the registry file
C26_WitnessCreated ==
    /\ IsOrgSet /\ err = nil /\ Len(C26_Registry) = 1

----------------------------------------------------------------------------
(* Commands running at the same time *)

\* a command has written the registry file, and the last that did
C24_LastWriter == procs[out.writer]

\* the registry the command pr makes of the registry it loaded
C24_Computed(pr) ==
    IF pr.cmd.op = "org set"
    THEN SetOrganization(pr.conf, pr.cmd.args[1], ExpandPath(pr.cmd.args[2]),
                         pr.cmd.isDefault)
    ELSE RemoveOrganization(pr.conf, pr.cmd.args[1])

====
